---- MODULE Spec2Model ----
(***************************************************************************)
(* Accounts-Payable reconciliation: the statement-total extractor and the  *)
(* ledger aggregator of recon_ap.py, and the threshold-gated variance      *)
(* investigation of variance_investigator.py.                              *)
(*                                                                         *)
(* A Python str is a sequence of one-character strings, so that lower(),   *)
(* split(), "in", replace() and float() are computed, not assumed.  A      *)
(* Python float is the exact rational [num, den] (den > 0, lowest terms).  *)
(***************************************************************************)
EXTENDS Integers, Sequences, FiniteSets, TLC

VARIABLES
    \* variance_investigator.py: the persisted report and one run of main()
    sheet,        \* rows of "AP Reconciliation Summary" in AP_Reconciliation.xlsx
    pc,           \* position of the Investigation Trigger
    mom_percent,  \* main(): mom_percent
    reason,       \* main(): reason
    called,       \* the narrative service was requested in the current run
    failure,      \* cause string of the failed service call of the current run
    history,      \* narratives written by the latest consecutive runs of main()
    log,          \* the last status line printed by the clear or update step
    \* recon_ap.py: extract_total_from_statement
    stage,        \* "input" before the call, "done" after it
    readable,     \* pdfplumber could open the document and extract its text
    text,         \* the extracted document text
    result,       \* what the call returned or raised
    \* recon_ap.py: filter_ap_activity
    gl0,          \* the ledger rows as loaded
    gl,           \* a permutation of gl0
    agg           \* what filter_ap_activity returned for gl

trigVars == <<sheet, pc, mom_percent, reason, called, failure, history, log>>
extVars  == <<stage, readable, text, result>>
aggVars  == <<gl0, gl, agg>>
vars     == <<sheet, pc, mom_percent, reason, called, failure, history, log,
              stage, readable, text, result, gl0, gl, agg>>

-----------------------------------------------------------------------------
(* Python str and float                                                    *)

UPPER == <<"A","B","C","D","E","F","G","H","I","J","K","L","M",
           "N","O","P","Q","R","S","T","U","V","W","X","Y","Z">>
LOWER == <<"a","b","c","d","e","f","g","h","i","j","k","l","m",
           "n","o","p","q","r","s","t","u","v","w","x","y","z">>
DIGITS == <<"0","1","2","3","4","5","6","7","8","9">>

IsDigit(ch) == \E i \in 1..Len(DIGITS) : DIGITS[i] = ch

DigitVal(ch) == (CHOOSE i \in 1..Len(DIGITS) : DIGITS[i] = ch) - 1

WHITESPACE == {" ", "\t", "\n"}

IsSpace(ch) == ch \in WHITESPACE

LowerChar(ch) ==
    IF \E i \in 1..Len(UPPER) : UPPER[i] = ch
    THEN LOWER[CHOOSE i \in 1..Len(UPPER) : UPPER[i] = ch]
    ELSE ch

\* str.lower()
LowerStr(s) == [i \in 1..Len(s) |-> LowerChar(s[i])]

\* sub in s
Contains(sub, s) ==
    \E i \in 0..(Len(s) - Len(sub)) : SubSeq(s, i + 1, i + Len(sub)) = sub

\* s.replace(ch, "")
Remove(s, ch) == SelectSeq(s, LAMBDA c : c # ch)

\* str.isdigit()
IsDigitStr(s) == Len(s) > 0 /\ \A i \in 1..Len(s) : IsDigit(s[i])

\* str.strip()
RECURSIVE LStrip(_)
LStrip(s) == IF s # <<>> /\ IsSpace(Head(s)) THEN LStrip(Tail(s)) ELSE s

RECURSIVE RStrip(_)
RStrip(s) ==
    IF s # <<>> /\ IsSpace(s[Len(s)]) THEN RStrip(SubSeq(s, 1, Len(s) - 1)) ELSE s

Strip(s) == RStrip(LStrip(s))

\* reversed(seq)
ReversedSeq_Forward(s) == s

ReversedSeq(s) == [i \in 1..Len(s) |-> s[Len(s) + 1 - i]]

\* position of the first character of s that is in chars, 0 when there is none
FirstIndex(s, chars) ==
    IF \E i \in 1..Len(s) : s[i] \in chars
    THEN CHOOSE i \in 1..Len(s) :
            s[i] \in chars /\ \A j \in 1..(i - 1) : s[j] \notin chars
    ELSE 0

\* str.split(): the maximal runs of non-whitespace characters
RECURSIVE Split(_)
Split(s) ==
    IF s = <<>> THEN <<>>
    ELSE IF IsSpace(Head(s)) THEN Split(Tail(s))
    ELSE LET sp == FirstIndex(s, WHITESPACE)
             n  == IF sp = 0 THEN Len(s) ELSE sp - 1
         IN  <<SubSeq(s, 1, n)>> \o Split(SubSeq(s, n + 1, Len(s)))

\* str.splitlines()
RECURSIVE SplitLines(_)
SplitLines(s) ==
    IF s = <<>> THEN <<>>
    ELSE LET nl == FirstIndex(s, {"\n"})
         IN  IF nl = 0 THEN <<s>>
             ELSE <<SubSeq(s, 1, nl - 1)>> \o SplitLines(SubSeq(s, nl + 1, Len(s)))

\* "\n".join(parts)
RECURSIVE JoinLines(_)
JoinLines(parts) ==
    IF parts = <<>> THEN <<>>
    ELSE IF Len(parts) = 1 THEN parts[1]
    ELSE parts[1] \o <<"\n">> \o JoinLines(Tail(parts))

RECURSIVE GCD(_, _)
GCD(a, b) == IF b = 0 THEN a ELSE GCD(b, a % b)

Abs(n) == IF n < 0 THEN -n ELSE n

\* the float n / d, d > 0
Float(n, d) ==
    LET g == GCD(Abs(n), d) IN [num |-> n \div g, den |-> d \div g]

RECURSIVE DigitsToInt(_)
DigitsToInt(s) ==
    IF s = <<>> THEN 0
    ELSE 10 * DigitsToInt(SubSeq(s, 1, Len(s) - 1)) + DigitVal(s[Len(s)])

RECURSIVE Pow10(_)
Pow10(k) == IF k = 0 THEN 1 ELSE 10 * Pow10(k - 1)

\* float(s) of a str: surrounding whitespace and one sign are allowed, then
\* digits with at most one decimal point and at least one digit; anything
\* else raises ValueError (ok = FALSE).
PyFloat(s) ==
    LET u      == Strip(s)
        signed == u # <<>> /\ Head(u) \in {"+", "-"}
        body   == IF signed THEN Tail(u) ELSE u
        digits == Remove(body, ".")
        dot    == FirstIndex(body, {"."})
        frac   == IF dot = 0 THEN 0 ELSE Len(body) - dot
        sgn    == IF signed /\ Head(u) = "-" THEN -1 ELSE 1
    IN  IF IsDigitStr(digits) /\ Len(body) - Len(digits) <= 1
        THEN [ok |-> TRUE, val |-> Float(sgn * DigitsToInt(digits), Pow10(frac))]
        ELSE [ok |-> FALSE, val |-> Float(0, 1)]

-----------------------------------------------------------------------------
(* recon_ap.py: extract_total_from_statement                               *)

EXPECTED_SUPPLIER_TOTAL == 125000

S_balance == <<"b","a","l","a","n","c","e">>
S_total   == <<"t","o","t","a","l">>

NoMatch == [t |-> "none"]
Return(v, tier) == [t |-> "return", value |-> v, tier |-> tier]
Raise(exc) == [t |-> "raise", exc |-> exc]

\* word_clean: keep digits, "." and ",", then drop the commas
CleanWord(word) ==
    Remove(SelectSeq(word, LAMBDA ch : IsDigit(ch) \/ ch = "." \/ ch = ","), ",")

\* word_clean and word_clean.replace(".", "").isdigit()
LooksNumeric(clean) == clean # <<>> /\ IsDigitStr(Remove(clean, "."))

\* "balance" in line.lower() or "total" in line.lower()
IsLabeledLine(line) ==
    Contains(S_balance, LowerStr(line)) \/ Contains(S_total, LowerStr(line))

\* for word in reversed(words): the first numeric-looking token is converted
RECURSIVE ScanWords(_)
ScanWords(words) ==
    IF words = <<>> THEN NoMatch
    ELSE LET clean == CleanWord(Head(words))
         IN  IF LooksNumeric(clean)
             THEN IF PyFloat(clean).ok
                  THEN Return(PyFloat(clean).val, 1)
                  ELSE Raise("ValueError")
             ELSE ScanWords(Tail(words))

RECURSIVE ScanLabeledLines(_)
ScanLabeledLines(lines) ==
    IF lines = <<>> THEN NoMatch
    ELSE LET r == IF IsLabeledLine(Head(lines))
                  THEN ScanWords(ReversedSeq(Split(Head(lines))))
                  ELSE NoMatch
         IN  IF r.t # "none" THEN r ELSE ScanLabeledLines(Tail(lines))

\* first loop: for line in reversed(lines)
LabeledLineTier(lines) == ScanLabeledLines(ReversedSeq(lines))

\* numbers = [float(clean) for the numeric-looking words of the line]
RECURSIVE LineNumbers(_)
LineNumbers(words) ==
    IF words = <<>> THEN [t |-> "ok", nums |-> <<>>]
    ELSE LET clean == CleanWord(Head(words))
             rest  == LineNumbers(Tail(words))
         IN  IF LooksNumeric(clean)
             THEN IF ~PyFloat(clean).ok THEN Raise("ValueError")
                  ELSE IF rest.t = "raise" THEN rest
                  ELSE [t |-> "ok", nums |-> <<PyFloat(clean).val>> \o rest.nums]
             ELSE rest

\* ("$" in line or "balance" in line.lower()) and any(d in line for d in "0123456789")
IsContextLine(line) ==
    /\ Contains(<<"$">>, line) \/ Contains(S_balance, LowerStr(line))
    /\ \E i \in 1..Len(line) : IsDigit(line[i])

RECURSIVE ScanContextLines(_)
ScanContextLines(lines) ==
    IF lines = <<>> THEN NoMatch
    ELSE IF IsContextLine(Head(lines))
    THEN LET numbers == LineNumbers(Split(Head(lines)))
         IN  IF numbers.t = "raise" THEN numbers
             ELSE IF numbers.nums # <<>>
             THEN Return(numbers.nums[Len(numbers.nums)], 2)
             ELSE ScanContextLines(Tail(lines))
    ELSE ScanContextLines(Tail(lines))

ContextualNumericTier_Backward(lines) == ScanContextLines(ReversedSeq(lines))

\* second loop: for line in lines
ContextualNumericTier(lines) == ScanContextLines(lines)

extract_total_from_statement(canRead, txt) ==
    IF ~canRead THEN Return(Float(EXPECTED_SUPPLIER_TOTAL, 1), 3)
    ELSE LET lines == SplitLines(txt)
             r1    == LabeledLineTier(lines)
             r2    == ContextualNumericTier(lines)
         IN  IF r1.t # "none" THEN r1
             ELSE IF r2.t # "none" THEN r2
             ELSE Return(Float(EXPECTED_SUPPLIER_TOTAL, 1), 3)

-----------------------------------------------------------------------------
(* recon_ap.py: filter_ap_activity                                         *)

AP_ACCOUNT_CODE == <<"2","0","0","0">>

RECURSIVE NatToStr(_)
NatToStr(n) ==
    IF n < 10 THEN <<DIGITS[n + 1]>>
    ELSE NatToStr(n \div 10) \o <<DIGITS[(n % 10) + 1]>>

\* astype(str) of one account_code value: an int64 or an object (str) cell
AsTypeStr(v) == IF v.t = "int" THEN NatToStr(v.n) ELSE v.s

\* pd.to_datetime(value, errors='coerce'): a timestamp, or NaT for a null
\* or unparsable value
ToDatetime(v) ==
    IF v.t = "date" THEN [t |-> "ts", month |-> v.month] ELSE [t |-> "NaT"]

\* df["month"] == m, with month = date.dt.month (NaN for NaT, never equal)
MonthEquals(ts, m) == ts.t = "ts" /\ ts.month = m

RECURSIVE SumSeq(_)
SumSeq(s) == IF s = <<>> THEN 0 ELSE Head(s) + SumSeq(Tail(s))

SeriesSum_LastValue(s) == IF s = <<>> THEN 0 ELSE s[Len(s)]

\* Series.sum()
SeriesSum(s) == SumSeq(s)

\* df[df["month"] == m][col]
MonthColumn(df, m, col) ==
    LET rows == SelectSeq(df, LAMBDA r : MonthEquals(r.date, m))
    IN  [i \in 1..Len(rows) |-> rows[i][col]]

filter_ap_activity(df) ==
    LET ap    == SelectSeq(df, LAMBDA r : AsTypeStr(r.account_code) = AP_ACCOUNT_CODE)
        dated == [i \in 1..Len(ap) |-> [ap[i] EXCEPT !.date = ToDatetime(@)]]
        aug   == SeriesSum(MonthColumn(dated, 8, "credit"))
                   - SeriesSum(MonthColumn(dated, 8, "debit"))
        sep   == SeriesSum(MonthColumn(dated, 9, "credit"))
                   - SeriesSum(MonthColumn(dated, 9, "debit"))
    IN  [t |-> "return", aug |-> aug, sep |-> sep, movement |-> sep - aug]

-----------------------------------------------------------------------------
(* The persisted report: sheet "AP Reconciliation Summary"                 *)
(* A row is [a, b], the cells of columns A and B.  A cell is None, a str,  *)
(* a number, or a formula with the value Excel cached for it (None when    *)
(* the file was last written by openpyxl).                                 *)

None == [t |-> "none"]
StrCell(s) == [t |-> "str", s |-> s]
NumCell(v) == [t |-> "num", v |-> v]
FormulaCell(f, cached) == [t |-> "formula", f |-> f, cached |-> cached]

S_Item       == <<"I","t","e","m">>
S_Statement  == <<"S","t","a","t","e","m","e","n","t"," ","C","l","o","s","i","n","g"," ","B","a","l","a","n","c","e">>
S_GLAugust   == <<"G","L"," ","B","a","l","a","n","c","e"," ","A","u","g","u","s","t">>
S_GLSeptember == <<"G","L"," ","B","a","l","a","n","c","e"," ","S","e","p","t","e","m","b","e","r">>
S_Movement   == <<"M","o","v","e","m","e","n","t"," ","M","o","M">>
S_Variance   == <<"V","a","r","i","a","n","c","e">>
S_MoMChange  == <<"M","o","M"," ","%"," ","C","h","a","n","g","e">>
S_Reason     == <<"R","e","a","s","o","n">>
S_reason     == <<"r","e","a","s","o","n">>
F_Movement   == <<"=","B","4","-","B","3">>
F_Variance   == <<"=","B","2","-","B","4">>
F_MoMChange  == <<"=","(","B","4","-","B","3",")","/","B","3","*","1","0","0">>

\* recon_ap.py build_excel: the seven rows appended to the summary sheet;
\* openpyxl writes the formulas without cached values
build_excel(statement_total, aug, sep) ==
    << [a |-> StrCell(S_Item),        b |-> StrCell(<<"A","m","o","u","n","t">>)],
       [a |-> StrCell(S_Statement),   b |-> NumCell(statement_total)],
       [a |-> StrCell(S_GLAugust),    b |-> NumCell(aug)],
       [a |-> StrCell(S_GLSeptember), b |-> NumCell(sep)],
       [a |-> StrCell(S_Movement),    b |-> FormulaCell(F_Movement, None)],
       [a |-> StrCell(S_Variance),    b |-> FormulaCell(F_Variance, None)],
       [a |-> StrCell(S_MoMChange),   b |-> FormulaCell(F_MoMChange, None)] >>

\* ws[f"A{row}"] / ws[f"B{row}"]: a cell never written is empty
Cell(ws, row, col) == IF row <= Len(ws) THEN ws[row][col] ELSE None

\* cell.value after load_workbook(EXCEL_FILE, data_only=...)
CellValue(c, data_only) ==
    IF c.t = "formula"
    THEN IF data_only THEN c.cached ELSE StrCell(c.f)
    ELSE c

\* truthiness of a cell value
Truthy(v) ==
    \/ v.t = "str" /\ v.s # <<>>
    \/ v.t = "num" /\ v.v.num # 0

\* str(value) of a text cell; str() of a number or of None holds none of the
\* keys searched for
CellText(v) == IF v.t = "str" THEN v.s ELSE <<>>

\* ws[f"{col}{row}"] = v
SetCell(ws, row, col, v) ==
    LET grown == [i \in 1..(IF row > Len(ws) THEN row ELSE Len(ws)) |->
                     IF i <= Len(ws) THEN ws[i] ELSE [a |-> None, b |-> None]]
    IN  [grown EXCEPT ![row][col] = v]

RECURSIVE TrimEmptyRows(_)
TrimEmptyRows(ws) ==
    IF ws # <<>> /\ ws[Len(ws)] = [a |-> None, b |-> None]
    THEN TrimEmptyRows(SubSeq(ws, 1, Len(ws) - 1))
    ELSE ws

\* wb.save(EXCEL_FILE) of a workbook loaded with formulas: each formula is
\* written without the value Excel had cached, and empty cells are not kept
SaveWorkbook(ws) ==
    LET Written(c) == IF c.t = "formula" THEN FormulaCell(c.f, None) ELSE c
    IN  TrimEmptyRows([i \in 1..Len(ws) |->
                          [a |-> Written(ws[i].a), b |-> Written(ws[i].b)]])

-----------------------------------------------------------------------------
(* variance_investigator.py                                                *)

THRESHOLD_PERCENT == 10

\* range(1, 20) in read_mom_percentage, range(1, 50) in the Reason scans
MomScanStop == 20
ReasonScanStop == 50

FSub(x, y) == Float(x.num * y.den - y.num * x.den, x.den * y.den)

FMul(x, y) == Float(x.num * y.num, x.den * y.den)

\* x / y, y # 0
FDiv(x, y) ==
    IF y.num < 0 THEN Float(-(x.num * y.den), x.den * (-y.num))
    ELSE Float(x.num * y.den, x.den * y.num)

\* float(cell_b.value) if cell_b.value else 0.0
BalanceOf(v) ==
    IF ~Truthy(v) THEN [ok |-> TRUE, val |-> Float(0, 1)]
    ELSE IF v.t = "num" THEN [ok |-> TRUE, val |-> v.v]
    ELSE PyFloat(v.s)

read_mom_percentage(ws) ==
    LET rows == 1..(MomScanStop - 1)
        \* first pass, data_only=True: the cached value of "MoM % Change"
        found == { r \in rows :
                     /\ Truthy(CellValue(Cell(ws, r, "a"), TRUE))
                     /\ Contains(S_MoMChange, CellText(CellValue(Cell(ws, r, "a"), TRUE)))
                     /\ CellValue(Cell(ws, r, "b"), TRUE).t # "none" }
        first == CHOOSE r \in found : \A q \in found : r <= q
        mom   == CellValue(Cell(ws, first, "b"), TRUE)
        \* second pass, data_only=False: the two stored balances
        augRows == { r \in rows : CellValue(Cell(ws, r, "a"), FALSE) = StrCell(S_GLAugust) }
        sepRows == { r \in rows : CellValue(Cell(ws, r, "a"), FALSE) = StrCell(S_GLSeptember) }
        Last(S) == CHOOSE r \in S : \A q \in S : q <= r
        aug   == BalanceOf(CellValue(Cell(ws, Last(augRows), "b"), FALSE))
        sep   == BalanceOf(CellValue(Cell(ws, Last(sepRows), "b"), FALSE))
        Fails(S) == \E r \in S : ~BalanceOf(CellValue(Cell(ws, r, "b"), FALSE)).ok
    IN  IF found # {}
        THEN IF mom.t = "str"
             THEN IF PyFloat(Strip(Remove(mom.s, "%"))).ok
                  THEN PyFloat(Strip(Remove(mom.s, "%"))).val
                  ELSE Float(0, 1)                      \* except Exception: return 0.0
             ELSE mom.v
        ELSE IF Fails(augRows) \/ Fails(sepRows)
             THEN Float(0, 1)                           \* except Exception: return 0.0
        ELSE IF augRows # {} /\ sepRows # {} /\ aug.val.num # 0
             THEN FMul(FDiv(FSub(sep.val, aug.val), aug.val), Float(100, 1))
        ELSE Float(0, 1)

\* abs(mom_percent) <= THRESHOLD_PERCENT
WithinThreshold_Strict(p) == Abs(p.num) < THRESHOLD_PERCENT * p.den

WithinThreshold(p) == Abs(p.num) <= THRESHOLD_PERCENT * p.den

\* ws[f"A{row}"].value and str(ws[f"A{row}"].value).lower() == "reason"
IsReasonKey(v) == Truthy(v) /\ LowerStr(CellText(v)) = S_reason

\* the row at which the scan for the Reason row breaks, 0 when it finds none
FindReasonRow(ws) ==
    LET hits == { r \in 1..(ReasonScanStop - 1) :
                    IsReasonKey(CellValue(Cell(ws, r, "a"), FALSE)) }
    IN  IF hits = {} THEN 0 ELSE CHOOSE r \in hits : \A q \in hits : r <= q

clear_previous_reason(ws) ==
    LET row == FindReasonRow(ws)
    IN  IF row # 0
        THEN SaveWorkbook(SetCell(SetCell(ws, row, "a", None), row, "b", None))
        ELSE SaveWorkbook(ws)

clear_log(ws) ==
    IF FindReasonRow(ws) # 0 THEN "Cleared existing reason from Excel" ELSE ""

\* the last row of column A with data (1 when there is none)
LastDataRow(ws) ==
    LET used == { r \in 1..(ReasonScanStop - 1) :
                    Truthy(CellValue(Cell(ws, r, "a"), FALSE)) }
    IN  IF used = {} THEN 1 ELSE CHOOSE r \in used : \A q \in used : q <= r

update_excel_with_reason_AlwaysAppend(ws, why) ==
    SaveWorkbook(SetCell(SetCell(ws, LastDataRow(ws) + 1, "a", StrCell(S_Reason)),
                         LastDataRow(ws) + 1, "b", StrCell(why)))

update_excel_with_reason_NoSave(ws, why) == ws

update_excel_with_reason(ws, why) ==
    LET reason_row == FindReasonRow(ws)
        last_row   == LastDataRow(ws)
    IN  IF reason_row # 0
        THEN SaveWorkbook(SetCell(ws, reason_row, "b", StrCell(why)))
        ELSE SaveWorkbook(SetCell(SetCell(ws, last_row + 1, "a", StrCell(S_Reason)),
                                  last_row + 1, "b", StrCell(why)))

update_log(ws) ==
    IF FindReasonRow(ws) # 0 THEN "Updated existing reason in Excel"
    ELSE "Added new reason to Excel"

S_NoApiKey   == <<"E","r","r","o","r",":"," ","O","p","e","n","A","I"," ","A","P","I"," ","k","e","y"," ","n","o","t"," ","f","o","u","n","d"," ","i","n"," ","e","n","v","i","r","o","n","m","e","n","t"," ","v","a","r","i","a","b","l","e","s">>
S_NoAnalysis == <<"N","o"," ","a","n","a","l","y","s","i","s"," ","c","o","u","l","d"," ","b","e"," ","g","e","n","e","r","a","t","e","d"," ","f","r","o","m"," ","t","h","e"," ","p","r","o","v","i","d","e","d"," ","d","a","t","a">>
S_Unable     == <<"U","n","a","b","l","e"," ","t","o"," ","g","e","n","e","r","a","t","e"," ","A","I"," ","a","n","a","l","y","s","i","s"," ","d","u","e"," ","t","o"," ","A","P","I"," ","e","r","r","o","r",":"," ">>

\* what the narrative service does with one request
NoApiKey       == [t |-> "nokey"]
ServiceError(cause) == [t |-> "raise", cause |-> cause]
ServiceText(content) == [t |-> "content", s |-> content]

generate_investigation_reason_NoCause(outcome) ==
    IF outcome.t = "nokey" THEN S_NoApiKey
    ELSE IF outcome.t = "raise" THEN S_Unable
    ELSE IF outcome.s # <<>> THEN Strip(outcome.s)
    ELSE S_NoAnalysis

generate_investigation_reason(outcome) ==
    IF outcome.t = "nokey" THEN S_NoApiKey
    ELSE IF outcome.t = "raise" THEN S_Unable \o outcome.cause
    ELSE IF outcome.s # <<>> THEN Strip(outcome.s)
    ELSE S_NoAnalysis

-----------------------------------------------------------------------------
(* Documents for extract_total_from_statement                              *)

MaxPages == 3

L_TotalBalanceDue == <<"T","o","t","a","l"," ","B","a","l","a","n","c","e"," ","D","u","e",":"," ","$","1",",","2","3","4",".","5","6">>
L_Remaining       == <<"$","9","5","0",".","0","0"," ","r","e","m","a","i","n","i","n","g">>
L_OpeningBalance  == <<"B","a","l","a","n","c","e"," ","9","9">>
L_TotalTwoDots    == <<"T","O","T","A","L"," ","1",".","2",".","3">>
L_InvoicePaid     == <<"I","n","v","o","i","c","e"," ","7","7"," ","p","a","i","d">>
L_Fee             == <<"$","5"," ","f","e","e">>
L_TotalNoAmount   == <<"T","o","t","a","l"," ","n",",","a"," ",".">>
L_Owed            == <<"$"," ","o","w","e","d">>
L_DueTwoDots      == <<"$","1",".","2",".","3"," ","d","u","e">>

\* what page.extract_text() gives for one page; <<>> is a page without text
PageTexts ==
    { L_TotalBalanceDue, L_Remaining, L_OpeningBalance, L_TotalTwoDots,
      L_InvoicePaid, L_Fee, L_TotalNoAmount, L_Owed, L_DueTwoDots, <<>> }

SeqsUpTo(S, n) == UNION { [1..k -> S] : k \in 0..n }

\* "\n".join(page.extract_text() for page in pdf.pages if page.extract_text())
PdfText(pages) == JoinLines(SelectSeq(pages, LAMBDA p : p # <<>>))

TrigIdle ==
    /\ sheet = <<>>
    /\ pc = "Idle"
    /\ mom_percent = Float(0, 1)
    /\ reason = <<>>
    /\ called = FALSE
    /\ failure = NoMatch
    /\ history = <<>>
    /\ log = ""

ExtIdle ==
    /\ stage = "input"
    /\ readable = FALSE
    /\ text = <<>>
    /\ result = NoMatch

AggIdle ==
    /\ gl0 = <<>>
    /\ gl = <<>>
    /\ agg = NoMatch

InitExtract ==
    /\ stage = "input"
    /\ readable \in BOOLEAN
    /\ \E pages \in SeqsUpTo(PageTexts, MaxPages) :
          text = IF readable THEN PdfText(pages) ELSE <<>>
    /\ result = NoMatch
    /\ TrigIdle
    /\ AggIdle

\* statement_total = extract_total_from_statement(invoice_pdf)
ExtractTotal ==
    /\ stage = "input"
    /\ result' = extract_total_from_statement(readable, text)
    /\ stage' = "done"
    /\ UNCHANGED <<readable, text>>
    /\ UNCHANGED trigVars
    /\ UNCHANGED aggVars

NextExtract == ExtractTotal

SpecExtract == InitExtract /\ [][NextExtract]_vars

-----------------------------------------------------------------------------
(* Claims about extract_total_from_statement, stated for SpecExtract     *)

DocLines == SplitLines(text)

Returned(n, d) == result.t = "return" /\ result.value = Float(n, d)

\* C3 (as stated): extract_total never fails; for every document text and
\* fallback it returns a number and raises no error.
C3_NeverFails == stage = "done" => result.t = "return"

\* C4 (as stated): every document text containing the line
\* "Total Balance Due: $1,234.56" yields 1234.56, whatever the other lines.
C4_AnyPosition ==
    (stage = "done" /\ readable
       /\ \E i \in 1..Len(DocLines) : DocLines[i] = L_TotalBalanceDue)
    => Returned(123456, 100)

\* C4 (amended): when the line "Total Balance Due: $1,234.56" is the last
\* line of the text that contains "balance" or "total" (case-insensitive),
\* extract_total returns 1234.56 from the labeled-line tier, whatever the
\* lines before it and whatever unlabeled lines after it.
C4_LastLabeledLine ==
    (stage = "done" /\ readable
       /\ \E i \in 1..Len(DocLines) :
             /\ DocLines[i] = L_TotalBalanceDue
             /\ \A j \in (i + 1)..Len(DocLines) : ~IsLabeledLine(DocLines[j]))
    => (Returned(123456, 100) /\ result.tier = 1)

C4_Witness ==
    /\ stage = "done" /\ readable
    /\ DocLines = <<L_OpeningBalance, L_TotalBalanceDue, L_Fee>>
    /\ Returned(123456, 100)

\* C8 (as stated): a document whose text cannot be obtained, or in which no
\* line has a well-formed number token under the labeled-line tier or the
\* contextual-numeric tier, yields exactly the configured fallback.
C8_FallbackWhenNothingQualifies ==
    LET WellFormed(word) ==
            LET clean == CleanWord(word)
            IN  /\ LooksNumeric(clean)
                /\ Len(clean) - Len(Remove(clean, ".")) <= 1
        HasAmount(line) == \E k \in 1..Len(Split(line)) : WellFormed(Split(line)[k])
        QualifiesLabeled(line) == IsLabeledLine(line) /\ HasAmount(line)
        QualifiesContext(line) == IsContextLine(line) /\ HasAmount(line)
    IN  (stage = "done"
           /\ (~readable
                 \/ \A i \in 1..Len(DocLines) :
                       /\ ~QualifiesLabeled(DocLines[i])
                       /\ ~QualifiesContext(DocLines[i])))
        => (Returned(EXPECTED_SUPPLIER_TOTAL, 1) /\ result.tier = 3)

\* C9 (as stated): every text with no "balance"/"total" line that contains
\* the line "$950.00 remaining" yields 950.00 through the contextual tier,
\* whatever the other lines.
C9_AnyPosition ==
    (/\ stage = "done" /\ readable
     /\ \A j \in 1..Len(DocLines) : ~IsLabeledLine(DocLines[j])
     /\ \E i \in 1..Len(DocLines) : DocLines[i] = L_Remaining)
    => (Returned(950, 1) /\ result.tier = 2)

\* C9 (amended): in a text with no "balance"/"total" line, when no line
\* before "$950.00 remaining" holds both a "$" and a digit, extract_total
\* returns 950.00 through the contextual-numeric tier, whatever the lines
\* after it.
C9_FirstCurrencyLine ==
    (/\ stage = "done" /\ readable
     /\ \A j \in 1..Len(DocLines) : ~IsLabeledLine(DocLines[j])
     /\ \E i \in 1..Len(DocLines) :
             /\ DocLines[i] = L_Remaining
             /\ \A h \in 1..(i - 1) :
                   ~(Contains(<<"$">>, DocLines[h])
                       /\ \E k \in 1..Len(DocLines[h]) : IsDigit(DocLines[h][k])))
    => (Returned(950, 1) /\ result.tier = 2)

C9_Witness ==
    /\ stage = "done" /\ readable
    /\ DocLines = <<L_InvoicePaid, L_Remaining, L_Fee>>
    /\ Returned(950, 1) /\ result.tier = 2

-----------------------------------------------------------------------------
(* Ledgers for filter_ap_activity                                          *)

MaxRows == 3

IntCode(n) == [t |-> "int", n |-> n]
StrCode(s) == [t |-> "str", s |-> s]
DateIn(m)  == [t |-> "date", month |-> m]
BadDate    == [t |-> "unparsable"]
NullDate   == [t |-> "null"]

LedgerRow(a, d, c, b) == [account_code |-> a, date |-> d, credit |-> c, debit |-> b]

LedgerRows ==
    { LedgerRow(IntCode(2000), DateIn(8), 100, 0),
      LedgerRow(IntCode(2000), DateIn(8), 0, 20),
      LedgerRow(StrCode(<<"2","0","0","0">>), DateIn(9), 140, 0),
      LedgerRow(StrCode(<<"2","0","0","0">>), DateIn(9), 0, 30),
      LedgerRow(StrCode(<<"2","0","0","1">>), DateIn(8), 7, 0),
      LedgerRow(IntCode(2000), NullDate, 5, 0),
      LedgerRow(IntCode(2000), BadDate, 0, 9),
      LedgerRow(IntCode(2000), DateIn(7), 11, 0) }

InitAggregate ==
    /\ gl0 \in SeqsUpTo(LedgerRows, MaxRows)
    /\ gl = gl0
    /\ agg = NoMatch
    /\ TrigIdle
    /\ ExtIdle

\* the loader hands the same rows over in another order
PermuteRows ==
    /\ agg.t = "none"
    /\ \E i \in 1..(Len(gl) - 1) :
          /\ gl[i] # gl[i + 1]
          /\ gl' = [gl EXCEPT ![i] = gl[i + 1], ![i + 1] = gl[i]]
    /\ UNCHANGED <<gl0, agg>>
    /\ UNCHANGED trigVars
    /\ UNCHANGED extVars

\* aug, sep, movement = filter_ap_activity(gl)
Aggregate ==
    /\ agg.t = "none"
    /\ agg' = filter_ap_activity(gl)
    /\ UNCHANGED <<gl0, gl>>
    /\ UNCHANGED trigVars
    /\ UNCHANGED extVars

NextAggregate == PermuteRows \/ Aggregate

SpecAggregate == InitAggregate /\ [][NextAggregate]_vars

-----------------------------------------------------------------------------
(* Claims about filter_ap_activity, stated for SpecAggregate             *)

RECURSIVE SumOver(_, _)
SumOver(S, f) ==
    IF S = {} THEN 0
    ELSE LET x == CHOOSE y \in S : TRUE IN f[x] + SumOver(S \ {x}, f)

\* sum(credit) - sum(debit) over the rows of account 2000 dated in month m
PeriodBalance(rows, m) ==
    LET In == { i \in 1..Len(rows) :
                  /\ AsTypeStr(rows[i].account_code) = AP_ACCOUNT_CODE
                  /\ rows[i].date.t = "date"
                  /\ rows[i].date.month = m }
    IN  SumOver(In, [i \in In |-> rows[i].credit])
          - SumOver(In, [i \in In |-> rows[i].debit])

-----------------------------------------------------------------------------
(* Reports and service outcomes for the Investigation Trigger              *)

MaxRuns == 2

AugBalances == {0, 100000}
SepBalances == {50000, 90000, 103000, 110000, 140000}

S_Div0 == <<"#","D","I","V","/","0","!">>

\* the values Excel caches for the three formulas when the report is opened
\* and saved there before the trigger runs
ExcelRecalculated(ws) ==
    LET st  == ws[2].b.v
        aug == ws[3].b.v
        sep == ws[4].b.v
        pct == IF aug.num = 0 THEN StrCell(S_Div0)
               ELSE NumCell(FMul(FDiv(FSub(sep, aug), aug), Float(100, 1)))
    IN  [ws EXCEPT ![5].b.cached = NumCell(FSub(sep, aug)),
                   ![6].b.cached = NumCell(FSub(st, sep)),
                   ![7].b.cached = pct]

ServiceOutcomes ==
    { NoApiKey,
      ServiceError(<<"C","o","n","n","e","c","t","i","o","n"," ","e","r","r","o","r",".">>),
      ServiceError(<<"t","i","m","e","o","u","t">>),
      ServiceText(<<" ","I","n","v","o","i","c","e","s"," ","u","p"," ">>),
      ServiceText(<<"P","a","y","m","e","n","t","s"," ","d","o","w","n">>),
      ServiceText(<<>>) }

Rest == {"Idle", "WithinThreshold", "ReportUpdated", "PercentageRead"}

S_ValueError == <<"#","V","A","L","U","E","!">>

\* a whole-number percentage as a spreadsheet shows it in a text cell: "40%"
PercentText(p) ==
    (IF p.num < 0 THEN <<"-">> ELSE <<>>) \o NatToStr(Abs(p.num)) \o <<"%">>

\* the report as the trigger finds it: as build_excel wrote it, or opened and
\* saved in a spreadsheet application, which stores a value with each formula:
\* the number, the percentage as text, or an error text
ReportStates == {"written", "recalculated", "percent text", "error text"}

StoredReport(fresh, how) ==
    LET calc == ExcelRecalculated(fresh)
        pct  == calc[7].b.cached
    IN  IF how = "written" THEN fresh
        ELSE IF how = "error text"
        THEN [calc EXCEPT ![7].b.cached = StrCell(S_ValueError)]
        ELSE IF how = "percent text" /\ pct.t = "num" /\ pct.v.den = 1
        THEN [calc EXCEPT ![7].b.cached = StrCell(PercentText(pct.v))]
        ELSE calc

Init ==
    /\ \E aug \in AugBalances, sep \in SepBalances, how \in ReportStates :
          sheet = StoredReport(build_excel(Float(EXPECTED_SUPPLIER_TOTAL, 1),
                                           Float(aug, 1), Float(sep, 1)), how)
    /\ pc = "Idle"
    /\ mom_percent = Float(0, 1)
    /\ reason = <<>>
    /\ called = FALSE
    /\ failure = NoMatch
    /\ history = <<>>
    /\ log = ""
    /\ ExtIdle
    /\ AggIdle

\* the narratives of the latest MaxRuns consecutive runs
Remember(h, why) ==
    LET all == Append(h, why)
    IN  IF Len(all) > MaxRuns THEN SubSeq(all, Len(all) - MaxRuns + 1, Len(all)) ELSE all

\* main(): clear_previous_reason()
ClearPreviousReason ==
    /\ pc \in Rest
    /\ sheet' = clear_previous_reason(sheet)
    /\ log' = clear_log(sheet)
    /\ pc' = "ReasonCleared"
    /\ reason' = <<>>
    /\ called' = FALSE
    /\ failure' = NoMatch
    /\ UNCHANGED <<mom_percent, history>>
    /\ UNCHANGED extVars
    /\ UNCHANGED aggVars

\* main(): mom_percent = read_mom_percentage()
ReadMomPercentage ==
    /\ pc = "ReasonCleared"
    /\ mom_percent' = read_mom_percentage(sheet)
    /\ pc' = "Evaluating"
    /\ UNCHANGED <<sheet, reason, called, failure, history, log>>
    /\ UNCHANGED extVars
    /\ UNCHANGED aggVars

\* main(): if abs(mom_percent) <= THRESHOLD_PERCENT: return
CheckThreshold ==
    /\ pc = "Evaluating"
    /\ IF WithinThreshold(mom_percent)
       THEN pc' = "WithinThreshold" /\ history' = <<>>
       ELSE pc' = "Investigating" /\ history' = history
    /\ UNCHANGED <<sheet, mom_percent, reason, called, failure, log>>
    /\ UNCHANGED extVars
    /\ UNCHANGED aggVars

\* main(): the four context reads (which change nothing) and
\* reason = generate_investigation_reason(...)
GenerateReason ==
    /\ pc = "Investigating"
    /\ \E outcome \in ServiceOutcomes :
          /\ reason' = generate_investigation_reason(outcome)
          /\ failure' = IF outcome.t = "raise" THEN outcome ELSE NoMatch
    /\ called' = TRUE
    /\ pc' = "NarrativeRequested"
    /\ UNCHANGED <<sheet, mom_percent, history, log>>
    /\ UNCHANGED extVars
    /\ UNCHANGED aggVars

\* main(): update_excel_with_reason(reason)
UpdateReport ==
    /\ pc = "NarrativeRequested"
    /\ sheet' = update_excel_with_reason(sheet, reason)
    /\ log' = update_log(sheet)
    /\ history' = Remember(history, reason)
    /\ pc' = "ReportUpdated"
    /\ UNCHANGED <<mom_percent, reason, called, failure>>
    /\ UNCHANGED extVars
    /\ UNCHANGED aggVars

\* clear_previous_reason() called on its own, between runs
ClearStep ==
    /\ pc \in Rest
    /\ sheet' = clear_previous_reason(sheet)
    /\ log' = clear_log(sheet)
    /\ pc' = "Idle"
    /\ history' = <<>>
    /\ UNCHANGED <<mom_percent, reason, called, failure>>
    /\ UNCHANGED extVars
    /\ UNCHANGED aggVars

\* update_excel_with_reason(why) called on its own, between runs
UpdateStep ==
    /\ pc \in Rest
    /\ \E outcome \in ServiceOutcomes :
          sheet' = update_excel_with_reason(sheet, generate_investigation_reason(outcome))
    /\ log' = update_log(sheet)
    /\ pc' = "Idle"
    /\ history' = <<>>
    /\ UNCHANGED <<mom_percent, reason, called, failure>>
    /\ UNCHANGED extVars
    /\ UNCHANGED aggVars

\* read_mom_percentage() called on its own, between runs
ReadStep ==
    /\ pc \in Rest
    /\ mom_percent' = read_mom_percentage(sheet)
    /\ pc' = "PercentageRead"
    /\ UNCHANGED <<sheet, reason, called, failure, history, log>>
    /\ UNCHANGED extVars
    /\ UNCHANGED aggVars

Next ==
    \/ ClearPreviousReason
    \/ ReadMomPercentage
    \/ CheckThreshold
    \/ GenerateReason
    \/ UpdateReport
    \/ ClearStep
    \/ UpdateStep
    \/ ReadStep

Spec == Init /\ [][Next]_vars

-----------------------------------------------------------------------------
(* Claims about the Investigation Trigger, stated for Spec               *)

\* the rows of the summary whose key is "Reason"
ReasonRows == { r \in 1..Len(sheet) : IsReasonKey(CellValue(sheet[r].a, FALSE)) }

\* the two period balances stored in the report
StoredAugust == sheet[3].b.v
StoredSeptember == sheet[4].b.v

\* C1: from a freshly assembled report, after any sequence of runs and of
\* single clear and update steps, the summary holds at most one Reason row;
\* an update overwrites the Reason row when there is one and adds a row only
\* when there is none, so exactly one is left after it.
C1_AtMostOneReason ==
    /\ Cardinality(ReasonRows) <= 1
    /\ log \in {"Updated existing reason in Excel", "Added new reason to Excel"}
          => Cardinality(ReasonRows) = 1

C1_Witness ==
    /\ log = "Updated existing reason in Excel"
    /\ Cardinality(ReasonRows) = 1

\* C2: after main() has run twice in succession on the same report, with the
\* movement above the threshold, the summary holds exactly one Reason entry
\* and its value is the narrative of the second run.
C2_SecondRunReplaces ==
    (pc = "ReportUpdated" /\ Len(history) >= 2)
    => /\ Cardinality(ReasonRows) = 1
       /\ \A r \in ReasonRows : sheet[r].b = StrCell(history[Len(history)])

C2_Witness ==
    /\ pc = "ReportUpdated"
    /\ Len(history) = 2
    /\ history[1] # history[2]
    /\ \A r \in ReasonRows : sheet[r].b = StrCell(history[2])

\* C5: a run whose recovered percentage satisfies |percentage| <= 10 (the
\* boundary included) ends in WithinThreshold with the generator not called
\* and no Reason entry in the report; a run is in Investigating or beyond
\* exactly when |percentage| > 10 (100000 -> 140000 is 40% and investigates,
\* 100000 -> 103000 is 3% and does not).
C5_ThresholdGate ==
    LET small == Abs(mom_percent.num) <= 10 * mom_percent.den
        after == {"Investigating", "NarrativeRequested", "ReportUpdated"}
    IN  /\ pc = "WithinThreshold" => (small /\ ~called /\ ReasonRows = {})
        /\ pc \in after => ~small
        /\ (pc \in after \cup {"WithinThreshold"}
              /\ StoredAugust = Float(100000, 1) /\ StoredSeptember = Float(140000, 1))
           => (mom_percent = Float(40, 1) /\ pc \in after)
        /\ (pc \in after \cup {"WithinThreshold"}
              /\ StoredAugust = Float(100000, 1) /\ StoredSeptember = Float(103000, 1))
           => (mom_percent = Float(3, 1) /\ pc = "WithinThreshold")

C5_Witness ==
    /\ pc = "WithinThreshold"
    /\ mom_percent = Float(10, 1)
    /\ log = "Cleared existing reason from Excel"
    /\ ReasonRows = {}

\* C6 (as stated): when the prior-period balance is 0 the recovered
\* percentage is flagged as undefined, a value that is no number.
C6_UndefinedWhenPriorZero ==
    (pc = "Evaluating" /\ StoredAugust.num = 0)
    => mom_percent \notin [num : Int, den : Nat]

\* C7: when the narrative service call fails in an investigating run, the
\* next step of the run is the report update (the run is not aborted), and
\* in ReportUpdated the sole Reason entry is the failure message: a fixed
\* text followed by the cause string.
C7_FailureMessageWritten ==
    /\ [][(pc = "NarrativeRequested" /\ failure.t = "raise")
            => pc' = "ReportUpdated"]_vars
    /\ []((pc = "ReportUpdated" /\ failure.t = "raise")
           => /\ Cardinality(ReasonRows) = 1
              /\ \A r \in ReasonRows :
                    /\ sheet[r].b = StrCell(S_Unable \o failure.cause)
                    /\ Contains(failure.cause, sheet[r].b.s)
                    /\ Len(sheet[r].b.s) > Len(failure.cause))

C7_Witness ==
    /\ pc = "ReportUpdated"
    /\ failure.t = "raise"
    /\ \A r \in ReasonRows : Contains(failure.cause, sheet[r].b.s)

\* the value stored with the "MoM % Change" formula of the report
StoredMoM == sheet[7].b.cached

\* (september - august) / august * 100 from the two stored balances
Recomputed ==
    FMul(FDiv(FSub(StoredSeptember, StoredAugust), StoredAugust), Float(100, 1))

\* C11 (as stated): with a non-zero August balance, the percentage read from
\* the report is the stored "MoM % Change" value when that is present and
\* parses as a number (a percent sign stripped from text), and in every
\* other case, the value absent or present but not parseable, it is the
\* percentage recomputed as (september - august) / august * 100.
C11_StoredOrRecomputed ==
    (pc \in {"Evaluating", "PercentageRead"} /\ StoredAugust.num # 0)
    => mom_percent =
          IF StoredMoM.t = "num" THEN StoredMoM.v
          ELSE IF StoredMoM.t = "str"
                    /\ PyFloat(Strip(Remove(StoredMoM.s, "%"))).ok
          THEN PyFloat(Strip(Remove(StoredMoM.s, "%"))).val
          ELSE Recomputed

====
